---- MODULE Spec2Model ----
(***************************************************************************)
(* Model of code-sandbox-mcp/tools: createDockerClient (docker_client.go)  *)
(* and InitializeEnvironment / createContainer (initialize.go).            *)
(*                                                                         *)
(* Texts (error strings, the drained pull output, result messages) are     *)
(* sequences of word tokens; strings.Contains is substring search over     *)
(* tokens.  The engine, the filesystem and the clock are the environment:  *)
(* every call the code makes has each outcome the callee can produce.      *)
(***************************************************************************)
EXTENDS Integers, Sequences, FiniteSets, TLC

\* ---------------------------------------------------------------- bounds
NumProcs == 2
MaxFailures == 3
MaxClock == 1
CallerShort == 1
CallerLong == 5

\* ------------------------------------------------------- program constants
PullTimeout == 5

DefaultImage == "python:3.12-slim-bookworm"

FromEnv == "FromEnv"

SystemSocket == "/var/run/docker.sock"

UserSockets == <<"~/.rd/docker.sock", "~/.docker/run/docker.sock", "~/.colima/default/docker.sock">>

Nil == <<"nil">>

Procs == 1..NumProcs

\* ------------------------------------------------------------ environment
\* request.Params.Arguments["image"]: absent / not a string, "", or a name
RequestArgs ==
    { [isString |-> FALSE, val |-> ""],
      [isString |-> TRUE, val |-> ""],
      [isString |-> TRUE, val |-> "alpine:3"] }

\* the caller's context: no deadline, or a deadline at an absolute time
CallerCtxs ==
    { [hasDl |-> FALSE, dl |-> 0, err |-> "nil"],
      [hasDl |-> TRUE, dl |-> CallerShort, err |-> "nil"],
      [hasDl |-> TRUE, dl |-> CallerLong, err |-> "nil"] }

\* texts the drained pull stream can carry
Texts ==
    { <<"Pulling", "layer", "Pull", "complete">>,
      <<"Error", "manifest", "unknown">>,
      <<"repository", "not", "found">>,
      <<"error", "unauthorized">> }

\* texts of the error a failed ImagePull or io.ReadAll can return
PullErrs ==
    { <<"error", "404">>,
      <<"found", "not", "ERROR">>,
      <<"context", "deadline", "exceeded">> }

\* texts of the error a failed ContainerCreate or ContainerStart can return
EngineErrs ==
    { <<"Error", "response", "from", "daemon">> }

ContainerIDs == <<"c1", "c2", "c3", "c4">>

\* ---------------------------------------------------------------- helpers
\* strings.Contains(s, sub)
Contains(s, sub) ==
    \E i \in 0..(Len(s) - Len(sub)) : SubSeq(s, i + 1, i + Len(sub)) = sub

HasNotFoundCodesOnly(s) ==
    \/ Contains(s, <<"404">>)
    \/ Contains(s, <<"manifest", "unknown">>)

HasNotFound(s) ==
    \/ Contains(s, <<"not", "found">>)
    \/ Contains(s, <<"404">>)
    \/ Contains(s, <<"manifest", "unknown">>)

HasErrorMarker(s) ==
    \/ Contains(s, <<"error">>)
    \/ Contains(s, <<"Error">>)

\* image, ok := request.Params.Arguments["image"].(string); default if !ok || ""
ResolveImage(a) ==
    IF ~a.isString \/ a.val = "" THEN DefaultImage ELSE a.val

SocketPathsUserFirst(userOK) ==
    IF userOK THEN UserSockets \o <<SystemSocket>> ELSE <<SystemSocket>>

\* socketPaths after the optional append of the user paths
SocketPaths(userOK) ==
    IF userOK THEN <<SystemSocket>> \o UserSockets ELSE <<SystemSocket>>

CloseHandleShared(hs, h) ==
    [hs EXCEPT ![1].open = FALSE, ![1].closes = @ + 1]

\* cli.Close() on handle h
CloseHandle(hs, h) ==
    [hs EXCEPT ![h].open = FALSE, ![h].closes = @ + 1]

\* client.NewClientWithOpts succeeded: a new handle owned by p for candidate c
OpenHandle(hs, p, c) ==
    Append(hs, [owner |-> p, cand |-> c, open |-> TRUE, closes |-> 0])

PingFailedLeak(hs, h) == hs

\* the ping of a candidate failed: cli.Close()
PingFailed(hs, h) == CloseHandle(hs, h)

StatGateIgnored(statOK) == TRUE

\* if _, statErr := os.Stat(socketPath); statErr == nil { connect ... }
StatGate(statOK) == statOK

WithTimeoutDetached(parent, now, d) ==
    [exists |-> TRUE, dl |-> now + d, ownTimer |-> TRUE, err |-> "nil"]

\* context.WithTimeout(parent, d) called at time now
WithTimeout(parent, now, d) ==
    IF parent.hasDl /\ parent.dl < now + d
    THEN [exists |-> TRUE, dl |-> parent.dl, ownTimer |-> FALSE, err |-> parent.err]
    ELSE [exists |-> TRUE, dl |-> now + d, ownTimer |-> TRUE,
          err |-> IF parent.err # "nil" THEN parent.err
                  ELSE IF d <= 0 THEN "DeadlineExceeded" ELSE "nil"]

NoPullCtx == [exists |-> FALSE, dl |-> 0, ownTimer |-> FALSE, err |-> "nil"]

PropagateNothing(child, e) == child

\* cancelling a parent context cancels a live child with the same error
Propagate(child, e) ==
    IF child.exists /\ child.err = "nil" THEN [child EXCEPT !.err = e] ELSE child

VARIABLES pc, image, ctx, socketPaths, idx, cli, handles, pullCtx, hung,
          stream, pullOut, containers, respID, defers, ret, result, trace, clock

vars == <<pc, image, ctx, socketPaths, idx, cli, handles, pullCtx, hung,
          stream, pullOut, containers, respID, defers, ret, result, trace, clock>>

Log(p, op, cand, ok) ==
    trace' = [trace EXCEPT ![p] = Append(@, [op |-> op, cand |-> cand, ok |-> ok])]

\* ------------------------------------------------------------------- Init
Init ==
    /\ pc = [p \in Procs |-> IF p = 1 THEN "init" ELSE "off"]
    /\ image = [p \in Procs |-> ""]
    /\ ctx \in [Procs -> CallerCtxs]
    /\ \A p \in Procs : pc[p] = "off" => ~ctx[p].hasDl
    /\ socketPaths = [p \in Procs |-> <<>>]
    /\ idx = [p \in Procs |-> 0]
    /\ cli = [p \in Procs |-> 0]
    /\ handles = <<>>
    /\ pullCtx = [p \in Procs |-> NoPullCtx]
    /\ hung = [p \in Procs |-> FALSE]
    /\ stream = [p \in Procs |-> [state |-> "none", closes |-> 0]]
    /\ pullOut = [p \in Procs |-> [pullErr |-> Nil, readErr |-> Nil, pullStr |-> Nil]]
    /\ containers = <<>>
    /\ respID = [p \in Procs |-> ""]
    /\ defers = [p \in Procs |-> <<>>]
    /\ ret = [p \in Procs |-> [id |-> "", line |-> 0, err |-> Nil]]
    /\ result = [p \in Procs |-> [text |-> <<>>, err |-> "none"]]
    /\ trace = [p \in Procs |-> <<>>]
    /\ clock = 0


\* ------------------------------------------------------------ error values
NoErr == [line |-> 0, msg |-> Nil]

ConnErrMsgNoPaths(paths) ==
    <<"could", "not", "connect", "to", "Docker", "daemon.">>

\* fmt.Errorf("could not connect to Docker daemon. Tried ... paths: %v", socketPaths)
ConnErrMsg(paths) ==
    <<"could", "not", "connect", "to", "Docker", "daemon.", "Tried", "standard",
      "connection", "and", "socket", "paths:">> \o paths

\* fmt.Errorf("failed to create Docker client: %w", err)
ClientErr(paths) ==
    [line |-> 38, msg |-> <<"failed", "to", "create", "Docker", "client:">> \o ConnErrMsg(paths)]

NotFoundMsg(img) ==
    <<"docker", "image", img, "not", "found", "in", "registry", ".", "Please", "check",
      "that", "the", "image", "name", "and", "tag", "are", "correct">>

TimeoutPullMsg(img) ==
    <<"timeout", "while", "trying", "to", "pull", "Docker", "image", img,
      "-", "this", "usually", "means", "the", "image", "doesn't", "exist",
      "in", "the", "registry", "or", "the", "registry", "is", "unreachable">>

ClassifyPullErrTextFirst(img, ctxErr, errStr) ==
    IF HasNotFound(errStr)
    THEN [line |-> 62, msg |-> NotFoundMsg(img)]
    ELSE IF ctxErr = "DeadlineExceeded"
    THEN [line |-> 57, msg |-> TimeoutPullMsg(img)]
    ELSE [line |-> 64,
          msg |-> <<"failed", "to", "pull", "Docker", "image", img, ":">> \o errStr]

ClassifyPullErrNoNotFound(img, ctxErr, errStr) ==
    IF ctxErr = "DeadlineExceeded"
    THEN [line |-> 57, msg |-> TimeoutPullMsg(img)]
    ELSE [line |-> 64,
          msg |-> <<"failed", "to", "pull", "Docker", "image", img, ":">> \o errStr]

\* classification of a failed ImagePull call (pullErr != nil)
ClassifyPullErr(img, ctxErr, errStr) ==
    IF ctxErr = "DeadlineExceeded"
    THEN [line |-> 57, msg |-> TimeoutPullMsg(img)]
    ELSE IF HasNotFound(errStr)
    THEN [line |-> 62, msg |-> NotFoundMsg(img)]
    ELSE [line |-> 64,
          msg |-> <<"failed", "to", "pull", "Docker", "image", img, ":">> \o errStr]

ClassifyReadErrAnyCtxErr(img, ctxErr, errStr) ==
    IF ctxErr # "nil"
    THEN [line |-> 74,
          msg |-> <<"timeout", "while", "downloading", "Docker", "image", img>>]
    ELSE [line |-> 76,
          msg |-> <<"failed", "to", "read", "pull", "response", "for", "image", img, ":">>
                  \o errStr]

\* classification of a failed io.ReadAll(pullReader) (readErr != nil)
ClassifyReadErr(img, ctxErr, errStr) ==
    IF ctxErr = "DeadlineExceeded"
    THEN [line |-> 74,
          msg |-> <<"timeout", "while", "downloading", "Docker", "image", img>>]
    ELSE [line |-> 76,
          msg |-> <<"failed", "to", "read", "pull", "response", "for", "image", img, ":">>
                  \o errStr]

ClassifyPullOutputGenericFirst(img, pullStr) ==
    IF HasErrorMarker(pullStr)
    THEN [line |-> 85,
          msg |-> <<"failed", "to", "pull", "Docker", "image", img, ":">> \o pullStr]
    ELSE IF HasNotFound(pullStr)
    THEN [line |-> 82, msg |-> NotFoundMsg(img)]
    ELSE NoErr

ClassifyPullOutputNoGeneric(img, pullStr) ==
    IF HasNotFound(pullStr)
    THEN [line |-> 82, msg |-> NotFoundMsg(img)]
    ELSE NoErr

\* inspection of the drained text (pullStr); NoErr when the pull succeeded
ClassifyPullOutput(img, pullStr) ==
    IF HasNotFound(pullStr)
    THEN [line |-> 82, msg |-> NotFoundMsg(img)]
    ELSE IF HasErrorMarker(pullStr)
    THEN [line |-> 85,
          msg |-> <<"failed", "to", "pull", "Docker", "image", img, ":">> \o pullStr]
    ELSE NoErr

CreateErr(errStr) ==
    [line |-> 117, msg |-> <<"failed", "to", "create", "container:">> \o errStr]

StartErr(errStr) ==
    [line |-> 122, msg |-> <<"failed", "to", "start", "container:">> \o errStr]

NeedPullAlways(inspectOK) == TRUE

\* the pull branch is taken when ImageInspect returned an error
NeedPull(inspectOK) == ~inspectOK

ToolResultRaisingErr(containerId, err) ==
    IF err # Nil
    THEN [text |-> <<>>, err |-> "error"]
    ELSE [text |-> <<"container_id:", containerId>>, err |-> "nil"]

ToolResultIgnoringErr(containerId, err) ==
    [text |-> <<"container_id:", containerId>>, err |-> "nil"]

\* InitializeEnvironment's conversion of (containerId, err) to the tool result
ToolResult(containerId, err) ==
    IF err # Nil
    THEN [text |-> <<"Error:">> \o err, err |-> "nil"]
    ELSE [text |-> <<"container_id:", containerId>>, err |-> "nil"]

\* the engine's record of a container created from config / hostConfig
NewContainer(id, img, p) ==
    [id |-> id, image |-> img, workingDir |-> "/app", tty |-> TRUE,
     openStdin |-> TRUE, stdinOnce |-> FALSE, state |-> "created", by |-> p]

CloseStreamNoop(s) == s

\* pullReader.Close()
CloseStream(s) == [state |-> "closed", closes |-> s.closes + 1]

RemoveOnStartFailure(cs, id) ==
    LET Other(c) == c.id # id IN SelectSeq(cs, Other)

\* the engine's containers after ContainerStart failed: the code returns the
\* error and makes no further call on the container it created
AfterStartFailure(cs, id) == cs

InDefers(p, d) == \E i \in 1..Len(defers[p]) : defers[p][i] = d

ReturnRetrying(p, id, e) ==
    /\ pc' = [pc EXCEPT ![p] = IF e.line \in {0, 38} THEN "done" ELSE "inspect"]
    /\ ret' = [ret EXCEPT ![p] = [id |-> id, line |-> e.line, err |-> e.msg]]
    /\ result' = [result EXCEPT ![p] = ToolResult(id, e.msg)]
    /\ stream' = stream
    /\ pullCtx' = pullCtx
    /\ handles' = IF e.line \in {0, 38} /\ InDefers(p, "cli.Close")
                  THEN CloseHandle(handles, cli[p])
                  ELSE handles

\* createContainer returns (id, e): the deferred calls run, then
\* InitializeEnvironment converts the pair to its result
Return(p, id, e) ==
    /\ pc' = [pc EXCEPT ![p] = "done"]
    /\ ret' = [ret EXCEPT ![p] = [id |-> id, line |-> e.line, err |-> e.msg]]
    /\ result' = [result EXCEPT ![p] = ToolResult(id, e.msg)]
    /\ stream' = IF InDefers(p, "pullReader.Close")
                 THEN [stream EXCEPT ![p] = CloseStream(@)]
                 ELSE stream
    /\ pullCtx' = IF InDefers(p, "cancel")
                  THEN [pullCtx EXCEPT ![p] = Propagate(@, "Canceled")]
                  ELSE pullCtx
    /\ handles' = IF InDefers(p, "cli.Close")
                  THEN CloseHandle(handles, cli[p])
                  ELSE handles

\* an engine call made under a context succeeds only while the context is live
Live(c) == c.err = "nil"

\* --------------------------------------------------- InitializeEnvironment
InitializeEnvironment(p) ==
    /\ pc[p] = "init"
    /\ \E a \in RequestArgs : image' = [image EXCEPT ![p] = ResolveImage(a)]
    /\ pc' = [pc EXCEPT ![p] = "connectEnv"]
    /\ UNCHANGED <<ctx, socketPaths, idx, cli, handles, pullCtx, hung, stream,
                   pullOut, containers, respID, defers, ret, result, trace, clock>>

\* ------------------------------------------------------ createDockerClient
ConnectEnv(p) ==
    /\ pc[p] = "connectEnv"
    /\ \E ok \in BOOLEAN :
        /\ Log(p, "connect", FromEnv, ok)
        /\ IF ok
           THEN /\ handles' = OpenHandle(handles, p, FromEnv)
                /\ cli' = [cli EXCEPT ![p] = Len(handles) + 1]
                /\ pc' = [pc EXCEPT ![p] = "pingEnv"]
           ELSE /\ pc' = [pc EXCEPT ![p] = "userCurrent"]
                /\ UNCHANGED <<handles, cli>>
    /\ UNCHANGED <<image, ctx, socketPaths, idx, pullCtx, hung, stream,
                   pullOut, containers, respID, defers, ret, result, clock>>

PingEnv(p) ==
    /\ pc[p] = "pingEnv"
    /\ ~hung[p]
    /\ \E ok \in BOOLEAN :
        /\ Log(p, "ping", FromEnv, ok)
        /\ IF ok
           THEN /\ pc' = [pc EXCEPT ![p] = "inspect"]
                /\ defers' = [defers EXCEPT ![p] = Append(@, "cli.Close")]
                /\ UNCHANGED handles
           ELSE /\ handles' = PingFailed(handles, cli[p])
                /\ pc' = [pc EXCEPT ![p] = "userCurrent"]
                /\ UNCHANGED defers
    /\ UNCHANGED <<image, ctx, socketPaths, idx, cli, pullCtx, hung, stream,
                   pullOut, containers, respID, ret, result, clock>>

UserCurrent(p) ==
    /\ pc[p] = "userCurrent"
    /\ \E ok \in BOOLEAN :
        /\ Log(p, "user", "", ok)
        /\ socketPaths' = [socketPaths EXCEPT ![p] = SocketPaths(ok)]
    /\ idx' = [idx EXCEPT ![p] = 1]
    /\ pc' = [pc EXCEPT ![p] = "stat"]
    /\ UNCHANGED <<image, ctx, cli, handles, pullCtx, hung, stream,
                   pullOut, containers, respID, defers, ret, result, clock>>

Stat(p) ==
    /\ pc[p] = "stat"
    /\ idx[p] <= Len(socketPaths[p])
    /\ \E ok \in BOOLEAN :
        /\ Log(p, "stat", socketPaths[p][idx[p]], ok)
        /\ IF StatGate(ok)
           THEN /\ pc' = [pc EXCEPT ![p] = "connect"]
                /\ UNCHANGED idx
           ELSE /\ idx' = [idx EXCEPT ![p] = @ + 1]
                /\ UNCHANGED pc
    /\ UNCHANGED <<image, ctx, socketPaths, cli, handles, pullCtx, hung, stream,
                   pullOut, containers, respID, defers, ret, result, clock>>

Connect(p) ==
    /\ pc[p] = "connect"
    /\ \E ok \in BOOLEAN :
        /\ Log(p, "connect", socketPaths[p][idx[p]], ok)
        /\ IF ok
           THEN /\ handles' = OpenHandle(handles, p, socketPaths[p][idx[p]])
                /\ cli' = [cli EXCEPT ![p] = Len(handles) + 1]
                /\ pc' = [pc EXCEPT ![p] = "ping"]
                /\ UNCHANGED idx
           ELSE /\ idx' = [idx EXCEPT ![p] = @ + 1]
                /\ pc' = [pc EXCEPT ![p] = "stat"]
                /\ UNCHANGED <<handles, cli>>
    /\ UNCHANGED <<image, ctx, socketPaths, pullCtx, hung, stream,
                   pullOut, containers, respID, defers, ret, result, clock>>

Ping(p) ==
    /\ pc[p] = "ping"
    /\ ~hung[p]
    /\ \E ok \in BOOLEAN :
        /\ Log(p, "ping", socketPaths[p][idx[p]], ok)
        /\ IF ok
           THEN /\ pc' = [pc EXCEPT ![p] = "inspect"]
                /\ defers' = [defers EXCEPT ![p] = Append(@, "cli.Close")]
                /\ UNCHANGED <<handles, idx>>
           ELSE /\ handles' = PingFailed(handles, cli[p])
                /\ idx' = [idx EXCEPT ![p] = @ + 1]
                /\ pc' = [pc EXCEPT ![p] = "stat"]
                /\ UNCHANGED defers
    /\ UNCHANGED <<image, ctx, socketPaths, cli, pullCtx, hung, stream,
                   pullOut, containers, respID, ret, result, clock>>

\* every candidate failed: createDockerClient returns (nil, err) and
\* createContainer returns before any defer is registered
Exhausted(p) ==
    /\ pc[p] = "stat"
    /\ idx[p] > Len(socketPaths[p])
    /\ cli' = [cli EXCEPT ![p] = 0]
    /\ Return(p, "", ClientErr(socketPaths[p]))
    /\ UNCHANGED <<image, ctx, socketPaths, idx, hung,
                   pullOut, containers, respID, defers, trace, clock>>


\* --------------------------------------------------------- createContainer
\* _, err = cli.ImageInspect(ctx, image)
Inspect(p) ==
    /\ pc[p] = "inspect"
    /\ \E ok \in BOOLEAN :
        /\ ok => (Live(ctx[p]) /\ ~hung[p])
        /\ hung[p] => ~Live(ctx[p])
        /\ Log(p, "inspect", "", ok)
        /\ pc' = [pc EXCEPT ![p] = IF NeedPull(ok) THEN "pull" ELSE "create"]
    /\ UNCHANGED <<image, ctx, socketPaths, idx, cli, handles, pullCtx, hung, stream,
                   pullOut, containers, respID, defers, ret, result, clock>>

\* pullCtx, cancel := context.WithTimeout(ctx, 5*time.Minute); defer cancel();
\* cli.ImagePull(pullCtx, ...) is invoked and is in flight
PullInvoke(p) ==
    /\ pc[p] = "pull"
    /\ pullCtx' = [pullCtx EXCEPT ![p] = WithTimeout(ctx[p], clock, PullTimeout)]
    /\ defers' = [defers EXCEPT ![p] = Append(@, "cancel")]
    /\ \E h \in BOOLEAN : hung' = [hung EXCEPT ![p] = h]
    /\ Log(p, "pull.call", "", TRUE)
    /\ pc' = [pc EXCEPT ![p] = "pulling"]
    /\ UNCHANGED <<image, ctx, socketPaths, idx, cli, handles, stream,
                   pullOut, containers, respID, ret, result, clock>>

\* ImagePull returned a reader: defer pullReader.Close(); io.ReadAll starts
PullOK(p) ==
    /\ pc[p] = "pulling"
    /\ ~hung[p]
    /\ Live(pullCtx[p])
    /\ stream' = [stream EXCEPT ![p] = [state |-> "open", closes |-> 0]]
    /\ defers' = [defers EXCEPT ![p] = Append(@, "pullReader.Close")]
    /\ \E h \in BOOLEAN : hung' = [hung EXCEPT ![p] = h]
    /\ Log(p, "pull", "", TRUE)
    /\ pc' = [pc EXCEPT ![p] = "draining"]
    /\ UNCHANGED <<image, ctx, socketPaths, idx, cli, handles, pullCtx,
                   pullOut, containers, respID, ret, result, clock>>

\* ImagePull returned pullErr != nil
PullFail(p) ==
    /\ pc[p] = "pulling"
    /\ ~hung[p] \/ ~Live(pullCtx[p])
    /\ \E e \in PullErrs :
        /\ pullOut' = [pullOut EXCEPT ![p].pullErr = e]
        /\ Return(p, "", ClassifyPullErr(image[p], pullCtx[p].err, e))
    /\ Log(p, "pull", "", FALSE)
    /\ UNCHANGED <<image, ctx, socketPaths, idx, cli, hung,
                   containers, respID, defers, clock>>

\* io.ReadAll returned the whole stream; the text is inspected
DrainOK(p) ==
    /\ pc[p] = "draining"
    /\ ~hung[p]
    /\ Live(pullCtx[p])
    /\ \E t \in Texts :
        /\ pullOut' = [pullOut EXCEPT ![p].pullStr = t]
        /\ IF ClassifyPullOutput(image[p], t) # NoErr
           THEN Return(p, "", ClassifyPullOutput(image[p], t))
           ELSE /\ pc' = [pc EXCEPT ![p] = "create"]
                /\ UNCHANGED <<ret, result, stream, pullCtx, handles>>
    /\ Log(p, "drain", "", TRUE)
    /\ UNCHANGED <<image, ctx, socketPaths, idx, cli, hung,
                   containers, respID, defers, clock>>

\* io.ReadAll returned readErr != nil
DrainFail(p) ==
    /\ pc[p] = "draining"
    /\ ~hung[p] \/ ~Live(pullCtx[p])
    /\ \E e \in PullErrs :
        /\ pullOut' = [pullOut EXCEPT ![p].readErr = e]
        /\ Return(p, "", ClassifyReadErr(image[p], pullCtx[p].err, e))
    /\ Log(p, "drain", "", FALSE)
    /\ UNCHANGED <<image, ctx, socketPaths, idx, cli, hung,
                   containers, respID, defers, clock>>

\* resp, err := cli.ContainerCreate(ctx, config, hostConfig, nil, nil, "")
Create(p) ==
    /\ pc[p] = "create"
    /\ \/ /\ Live(ctx[p])
          /\ ~hung[p]
          /\ Len(containers) < Len(ContainerIDs)
          /\ containers' = Append(containers,
                 NewContainer(ContainerIDs[Len(containers) + 1], image[p], p))
          /\ respID' = [respID EXCEPT ![p] = ContainerIDs[Len(containers) + 1]]
          /\ Log(p, "create", "", TRUE)
          /\ pc' = [pc EXCEPT ![p] = "start"]
          /\ UNCHANGED <<ret, result, stream, pullCtx, handles>>
       \/ /\ ~hung[p] \/ ~Live(ctx[p])
          /\ \E e \in EngineErrs : Return(p, "", CreateErr(e))
          /\ Log(p, "create", "", FALSE)
          /\ UNCHANGED <<containers, respID>>
    /\ UNCHANGED <<image, ctx, socketPaths, idx, cli, hung,
                   pullOut, defers, clock>>

\* cli.ContainerStart(ctx, resp.ID, ...); return resp.ID, nil
Start(p) ==
    /\ pc[p] = "start"
    /\ \/ /\ Live(ctx[p])
          /\ ~hung[p]
          /\ containers' = [i \in 1..Len(containers) |->
                 IF containers[i].id = respID[p]
                 THEN [containers[i] EXCEPT !.state = "running"]
                 ELSE containers[i]]
          /\ Log(p, "start", respID[p], TRUE)
          /\ Return(p, respID[p], NoErr)
       \/ /\ ~hung[p] \/ ~Live(ctx[p])
          /\ \E e \in EngineErrs : Return(p, "", StartErr(e))
          /\ Log(p, "start", respID[p], FALSE)
          /\ containers' = AfterStartFailure(containers, respID[p])
    /\ UNCHANGED <<image, ctx, socketPaths, idx, cli, hung,
                   pullOut, respID, defers, clock>>

\* ------------------------------------------------------------ engine hangs
\* The daemon accepts the connection and never answers /_ping. cli.Ping runs
\* under context.Background(), the client sets no timeout: the call blocks.
PingHang(p) ==
    /\ pc[p] \in {"pingEnv", "ping"}
    /\ ~hung[p]
    /\ hung' = [hung EXCEPT ![p] = TRUE]
    /\ UNCHANGED <<pc, image, ctx, socketPaths, idx, cli, handles, pullCtx, stream,
                   pullOut, containers, respID, defers, ret, result, trace, clock>>

\* The daemon never answers ImageInspect, ContainerCreate or ContainerStart:
\* the call blocks until the caller's ctx ends, the only bound it is given.
CallHang(p) ==
    /\ pc[p] \in {"inspect", "create", "start"}
    /\ ~hung[p]
    /\ hung' = [hung EXCEPT ![p] = TRUE]
    /\ UNCHANGED <<pc, image, ctx, socketPaths, idx, cli, handles, pullCtx, stream,
                   pullOut, containers, respID, defers, ret, result, trace, clock>>

\* ------------------------------------------------------ contexts and time
\* createDockerClient pings under context.Background(): the caller's context
\* and the clock are observed only from ImageInspect on
Active(p) == pc[p] \in {"inspect", "pull", "pulling", "draining", "create", "start"}

\* an engine call bounded by a context is in flight and may take any time
Blocked(p) ==
    \/ pc[p] \in {"pulling", "draining"}
    \/ pc[p] \in {"inspect", "create", "start"} /\ hung[p]

\* the deadlines still pending at the current time
Pending ==
    {pullCtx[p].dl : p \in {q \in Procs : pc[q] \in {"pulling", "draining"}
                                          /\ Live(pullCtx[q])}}
    \cup {ctx[p].dl : p \in {q \in Procs : Blocked(q)
                                         /\ ctx[q].hasDl /\ Live(ctx[q])}}

\* The clock is read by context.WithTimeout and by the timers only: time that
\* passes before ImagePull is invoked is counted right before the invocation,
\* and while a pull is in flight time advances to the next pending deadline.
Tick ==
    \/ /\ \E p \in Procs : pc[p] = "pull"
       /\ clock < MaxClock
       /\ clock' = clock + 1
       /\ UNCHANGED <<pc, image, ctx, socketPaths, idx, cli, handles, pullCtx, hung,
                      stream, pullOut, containers, respID, defers, ret, result, trace>>
    \/ /\ \E d \in Pending :
            /\ d > clock
            /\ \A e \in Pending : e > clock => d <= e
            /\ clock' = d
       /\ UNCHANGED <<pc, image, ctx, socketPaths, idx, cli, handles, pullCtx, hung,
                      stream, pullOut, containers, respID, defers, ret, result, trace>>

\* the caller cancels its context
CallerCancel(p) ==
    /\ Active(p)
    /\ Live(ctx[p])
    /\ ctx' = [ctx EXCEPT ![p].err = "Canceled"]
    /\ pullCtx' = [pullCtx EXCEPT ![p] = Propagate(@, "Canceled")]
    /\ UNCHANGED <<pc, image, socketPaths, idx, cli, handles, hung,
                   stream, pullOut, containers, respID, defers, ret, result, trace, clock>>

\* the deadline of the caller's context passes
CallerDeadline(p) ==
    /\ Active(p)
    /\ Live(ctx[p])
    /\ ctx[p].hasDl
    /\ clock >= ctx[p].dl
    /\ ctx' = [ctx EXCEPT ![p].err = "DeadlineExceeded"]
    /\ pullCtx' = [pullCtx EXCEPT ![p] = Propagate(@, "DeadlineExceeded")]
    /\ UNCHANGED <<pc, image, socketPaths, idx, cli, handles, hung,
                   stream, pullOut, containers, respID, defers, ret, result, trace, clock>>

\* the timer of the pull context fires
PullDeadline(p) ==
    /\ Active(p)
    /\ pullCtx[p].exists
    /\ pullCtx[p].ownTimer
    /\ Live(pullCtx[p])
    /\ clock >= pullCtx[p].dl
    /\ pullCtx' = [pullCtx EXCEPT ![p].err = "DeadlineExceeded"]
    /\ UNCHANGED <<pc, image, ctx, socketPaths, idx, cli, handles, hung,
                   stream, pullOut, containers, respID, defers, ret, result, trace, clock>>

\* ------------------------------------------------------------------- Next
\* the steps the program, the engine's answers and the timers take by
\* themselves once they can
Run(p) ==
    \/ InitializeEnvironment(p)
    \/ ConnectEnv(p)
    \/ PingEnv(p)
    \/ UserCurrent(p)
    \/ Stat(p)
    \/ Connect(p)
    \/ Ping(p)
    \/ Exhausted(p)
    \/ Inspect(p)
    \/ PullInvoke(p)
    \/ PullOK(p)
    \/ PullFail(p)
    \/ DrainOK(p)
    \/ DrainFail(p)
    \/ Create(p)
    \/ Start(p)
    \/ CallerDeadline(p)
    \/ PullDeadline(p)

\* ... and those the caller or the engine may or may not take
Step(p) ==
    \/ Run(p)
    \/ CallerCancel(p)
    \/ PingHang(p)
    \/ CallHang(p)

Next ==
    \/ \E p \in Procs : Step(p)
    \/ Tick

Spec == Init /\ [][Next]_vars

\* -------------------------------------------------- concurrent attempts
\* the calling transport invokes InitializeEnvironment once per request, each
\* in its own goroutine: every attempt of Procs is under way
InitConc ==
    /\ pc = [p \in Procs |-> "init"]
    /\ image = [p \in Procs |-> ""]
    /\ ctx = [p \in Procs |-> [hasDl |-> FALSE, dl |-> 0, err |-> "nil"]]
    /\ socketPaths = [p \in Procs |-> <<>>]
    /\ idx = [p \in Procs |-> 0]
    /\ cli = [p \in Procs |-> 0]
    /\ handles = <<>>
    /\ pullCtx = [p \in Procs |-> NoPullCtx]
    /\ hung = [p \in Procs |-> FALSE]
    /\ stream = [p \in Procs |-> [state |-> "none", closes |-> 0]]
    /\ pullOut = [p \in Procs |-> [pullErr |-> Nil, readErr |-> Nil, pullStr |-> Nil]]
    /\ containers = <<>>
    /\ respID = [p \in Procs |-> ""]
    /\ defers = [p \in Procs |-> <<>>]
    /\ ret = [p \in Procs |-> [id |-> "", line |-> 0, err |-> Nil]]
    /\ result = [p \in Procs |-> [text |-> <<>>, err |-> "none"]]
    /\ trace = [p \in Procs |-> <<>>]
    /\ clock = 0

IsFailedCall(e) == ~e.ok

\* the failed calls of the attempts ps, counted from their logs
RECURSIVE Failures(_)
Failures(ps) ==
    IF ps = {} THEN 0
    ELSE LET p == CHOOSE q \in ps : TRUE
         IN Len(SelectSeq(trace[p], IsFailedCall)) + Failures(ps \ {p})

\* the environment of the concurrent runs: requests for the default image,
\* callers without a deadline that may cancel, an engine that answers or lets
\* a pull hang, and at most MaxFailures failing calls over all attempts
Scene ==
    /\ \A p \in Procs : image[p] \in {"", DefaultImage}
    /\ Failures(Procs) <= MaxFailures

StepConc(p) ==
    \/ InitializeEnvironment(p) /\ Scene'
    \/ ConnectEnv(p) /\ Scene'
    \/ PingEnv(p) /\ Scene'
    \/ UserCurrent(p) /\ Scene'
    \/ Stat(p) /\ Scene'
    \/ Connect(p) /\ Scene'
    \/ Ping(p) /\ Scene'
    \/ Exhausted(p)
    \/ Inspect(p) /\ Scene'
    \/ PullInvoke(p)
    \/ PullOK(p)
    \/ PullFail(p) /\ Scene'
    \/ DrainOK(p)
    \/ DrainFail(p) /\ Scene'
    \/ Create(p) /\ Scene'
    \/ Start(p) /\ Scene'
    \/ CallerCancel(p)
    \/ PullDeadline(p)

NextConc ==
    \/ \E p \in Procs : StepConc(p)
    \/ Tick

SpecConc == InitConc /\ [][NextConc]_vars

\* The goroutine runs when it can, an answered call returns, a timer whose
\* deadline has passed fires and time passes; the caller is not obliged to
\* cancel and the engine is not obliged to answer.
SpecLive ==
    /\ Init
    /\ [][Next]_vars
    /\ WF_vars(Tick)
    /\ \A p \in Procs : WF_vars(Run(p))


\* ============================================================ properties
Entries(p) == DOMAIN trace[p]

Has(p, op, ok) == \E i \in Entries(p) : trace[p][i].op = op /\ trace[p][i].ok = ok

Called(p, op) == \E i \in Entries(p) : trace[p][i].op = op

Count(p, op) == Cardinality({i \in Entries(p) : trace[p][i].op = op})

\* C1: ContainerCreate is invoked only after the image is confirmed present:
\* ImageInspect succeeded, or ImagePull succeeded, the stream was drained
\* without a read error and the drained text carries none of the markers
\* "not found", "404", "manifest unknown", "error", "Error".
PulledClean(p) ==
    /\ Has(p, "pull", TRUE)
    /\ Has(p, "drain", TRUE)
    /\ pullOut[p].pullErr = Nil
    /\ pullOut[p].readErr = Nil
    /\ pullOut[p].pullStr # Nil
    /\ ~Contains(pullOut[p].pullStr, <<"not", "found">>)
    /\ ~Contains(pullOut[p].pullStr, <<"404">>)
    /\ ~Contains(pullOut[p].pullStr, <<"manifest", "unknown">>)
    /\ ~Contains(pullOut[p].pullStr, <<"error">>)
    /\ ~Contains(pullOut[p].pullStr, <<"Error">>)

C1_CreateOnlyAfterImagePresent ==
    \A p \in Procs :
        (pc[p] \in {"create", "start"} \/ Called(p, "create"))
            => (Has(p, "inspect", TRUE) \/ (Has(p, "inspect", FALSE) /\ PulledClean(p)))

C1_Witness ==
    \E p \in Procs : Has(p, "create", TRUE) /\ Has(p, "inspect", FALSE) /\ PulledClean(p)

\* C2: per attempt at most one engine handle is open at any moment, no handle
\* is closed twice, and when the attempt has returned every handle it opened
\* has been closed exactly once.
HandlesOf(p) == {h \in DOMAIN handles : handles[h].owner = p}

C2_HandleClosedExactlyOnce ==
    \A p \in Procs :
        /\ Cardinality({h \in HandlesOf(p) : handles[h].open}) <= 1
        /\ \A h \in HandlesOf(p) :
            /\ handles[h].closes <= 1
            /\ handles[h].open <=> handles[h].closes = 0
        /\ pc[p] = "done" => \A h \in HandlesOf(p) : handles[h].closes = 1

C2_Witness ==
    \E p \in Procs :
        /\ pc[p] = "done"
        /\ Has(p, "start", FALSE)
        /\ Cardinality(HandlesOf(p)) >= 3
        /\ \A h \in HandlesOf(p) : handles[h].closes = 1

\* C3: candidates are tried in the order FromEnv, /var/run/docker.sock,
\* ~/.rd/docker.sock, ~/.docker/run/docker.sock, ~/.colima/default/docker.sock
\* (the last three only when the user is known); the handle returned is that
\* of the first candidate whose connect and ping both succeeded, and nothing
\* is stat-ed, connected to or pinged after a ping has succeeded.
CandidateOrder ==
    <<"FromEnv", "/var/run/docker.sock", "~/.rd/docker.sock",
      "~/.docker/run/docker.sock", "~/.colima/default/docker.sock">>

Position(c) == CHOOSE k \in 1..Len(CandidateOrder) : CandidateOrder[k] = c

IsResolverOp(e) == e.op \in {"stat", "connect", "ping"}

ResolverLog(p) == SelectSeq(trace[p], IsResolverOp)

Returned(p) == pc[p] \in {"inspect", "pull", "pulling", "draining", "create", "start"}
                \/ (pc[p] = "done" /\ ret[p].line # 38)

C3_FirstValidatedCandidateWins ==
    \A p \in Procs :
        LET log == ResolverLog(p)
            tried == {log[i].cand : i \in DOMAIN log}
        IN  /\ \A i \in DOMAIN log : \A j \in DOMAIN log :
                i < j => Position(log[i].cand) <= Position(log[j].cand)
            /\ \A c \in tried : \A k \in 1..(Position(c) - 1) : CandidateOrder[k] \in tried
            /\ \A c \in tried : Position(c) > 2 => Has(p, "user", TRUE)
            /\ \A i \in DOMAIN log : (log[i].op = "ping" /\ log[i].ok) => i = Len(log)
            /\ Returned(p) =>
                /\ log # <<>>
                /\ log[Len(log)].op = "ping" /\ log[Len(log)].ok
                /\ cli[p] \in HandlesOf(p)
                /\ handles[cli[p]].cand = log[Len(log)].cand
                /\ \E i \in DOMAIN log :
                    log[i].op = "connect" /\ log[i].ok /\ log[i].cand = log[Len(log)].cand
                /\ \A i \in 1..(Len(log) - 1) : ~(log[i].op = "ping" /\ log[i].ok)

C3_Witness ==
    \E p \in Procs :
        /\ Returned(p)
        /\ handles[cli[p]].cand = "~/.docker/run/docker.sock"
        /\ \E i \in Entries(p) :
            trace[p][i] = [op |-> "ping", cand |-> "/var/run/docker.sock", ok |-> FALSE]

\* C4: a fallback candidate whose os.Stat failed is never connected to and
\* never pinged; the resolver goes on to the next candidate.
C4_MissingSocketNeverTried ==
    \A p \in Procs : \A i \in Entries(p) :
        (trace[p][i].op = "stat" /\ ~trace[p][i].ok) =>
            /\ \A j \in Entries(p) :
                trace[p][j].cand = trace[p][i].cand => trace[p][j].op = "stat"
            /\ i < Len(trace[p]) =>
                /\ trace[p][i + 1].op = "stat"
                /\ Position(trace[p][i + 1].cand) = Position(trace[p][i].cand) + 1
            /\ i = Len(trace[p]) =>
                \/ pc[p] = "stat"
                \/ pc[p] = "done" /\ ret[p].line = 38

C4_Witness ==
    \E p \in Procs : \E i \in Entries(p) :
        /\ trace[p][i] = [op |-> "stat", cand |-> "/var/run/docker.sock", ok |-> FALSE]
        /\ Has(p, "connect", TRUE)
        /\ i < Len(trace[p])

\* C5: when ImageInspect succeeds, ImagePull is never invoked and the next
\* engine call is ContainerCreate.
C5_NoPullWhenImagePresent ==
    \A p \in Procs : \A i \in Entries(p) :
        (trace[p][i].op = "inspect" /\ trace[p][i].ok) =>
            /\ ~Called(p, "pull.call")
            /\ ~Called(p, "pull")
            /\ ~pullCtx[p].exists
            /\ i < Len(trace[p]) => trace[p][i + 1].op = "create"
            /\ i = Len(trace[p]) => pc[p] = "create"

C5_Witness ==
    \E p \in Procs : Has(p, "inspect", TRUE) /\ Has(p, "create", TRUE) /\ pc[p] = "done"


\* C6: when ImageInspect fails ImagePull is invoked exactly once, under a
\* context derived from the caller's: its deadline is 5 minutes after the
\* invocation, or the caller's deadline when that is earlier, and it starts
\* with the caller's error when the caller's context is already done.
C6_PullOnceWithCappedBudget ==
    /\ [](\A p \in Procs :
            /\ Has(p, "inspect", FALSE) =>
                IF pc[p] = "pull"
                THEN Count(p, "pull.call") = 0 /\ ENABLED PullInvoke(p)
                ELSE Count(p, "pull.call") = 1
            /\ (pullCtx[p].exists /\ ctx[p].hasDl) => pullCtx[p].dl <= ctx[p].dl)
    /\ [][\A p \in Procs :
            (pc[p] = "pull" /\ pc'[p] = "pulling") =>
                /\ pullCtx'[p].exists
                /\ pullCtx'[p].dl <= clock + 5
                /\ ctx[p].hasDl => pullCtx'[p].dl <= ctx[p].dl
                /\ \/ pullCtx'[p].dl = clock + 5
                   \/ ctx[p].hasDl /\ pullCtx'[p].dl = ctx[p].dl
                /\ pullCtx'[p].err = ctx[p].err]_vars

C6_Witness ==
    \E p \in Procs :
        /\ pc[p] = "pulling"
        /\ Count(p, "pull.call") = 1
        /\ ctx[p].hasDl
        /\ pullCtx[p].dl = ctx[p].dl
        /\ pullCtx[p].dl < clock + 5
        /\ clock > 0

\* C7: a failed pull (the ImagePull call or the drain) whose pull context has
\* expired returns the timeout error, never the image-not-found error and
\* never the generic pull error, whatever text the error carries.
PullFailed(p) == pullOut[p].pullErr # Nil \/ pullOut[p].readErr # Nil

C7_TimeoutCheckedBeforeText ==
    \A p \in Procs :
        (pc[p] = "done" /\ PullFailed(p) /\ pullCtx[p].err = "DeadlineExceeded") =>
            /\ ret[p].line \in {57, 74}
            /\ ret[p].err[1] = "timeout"
            /\ ~Contains(ret[p].err, <<"not", "found", "in", "registry">>)
            /\ ~Contains(ret[p].err, <<"failed", "to", "pull">>)
            /\ ~Contains(ret[p].err, <<"failed", "to", "read">>)
            /\ SubSeq(result[p].text, 1, 2) = <<"Error:", "timeout">>

C7_Witness ==
    \E p \in Procs :
        /\ pc[p] = "done"
        /\ pullOut[p].pullErr = <<"error", "404">>
        /\ pullCtx[p].err = "DeadlineExceeded"
        /\ ret[p].line = 57

\* C8: a pull that succeeded and drained cleanly but whose text contains
\* "manifest unknown", "not found" or "404" returns the image-not-found error
\* and not the generic pull error, also when the text contains "error"/"Error".
C8_NotFoundBeforeGeneric ==
    \A p \in Procs :
        (/\ pullOut[p].pullStr # Nil
         /\ \/ Contains(pullOut[p].pullStr, <<"manifest", "unknown">>)
            \/ Contains(pullOut[p].pullStr, <<"not", "found">>)
            \/ Contains(pullOut[p].pullStr, <<"404">>)) =>
            /\ pc[p] = "done"
            /\ pullOut[p].readErr = Nil
            /\ ret[p].line = 82
            /\ Contains(ret[p].err, <<"not", "found", "in", "registry">>)
            /\ ~Contains(ret[p].err, <<"failed", "to", "pull">>)
            /\ result[p].text[1] = "Error:"

C8_Witness ==
    \E p \in Procs :
        /\ pullOut[p].pullStr = <<"Error", "manifest", "unknown">>
        /\ ret[p].line = 82

\* C9: a failed ImagePull call is classified timeout when the pull context
\* has expired, else image-not-found ("not found in registry") when the error
\* text contains "not found", "404" or "manifest unknown", else a generic
\* pull failure wrapping the error; no drain, create or start follows.
C9_PullCallFailureClassification ==
    \A p \in Procs :
        pullOut[p].pullErr # Nil =>
            LET e == pullOut[p].pullErr
                nf == \/ Contains(e, <<"not", "found">>)
                      \/ Contains(e, <<"404">>)
                      \/ Contains(e, <<"manifest", "unknown">>)
            IN  /\ pc[p] = "done"
                /\ ret[p].id = ""
                /\ IF pullCtx[p].err = "DeadlineExceeded"
                   THEN ret[p].line = 57 /\ ret[p].err[1] = "timeout"
                   ELSE IF nf
                   THEN /\ ret[p].line = 62
                        /\ Contains(ret[p].err, <<"not", "found", "in", "registry">>)
                   ELSE /\ ret[p].line = 64
                        /\ SubSeq(ret[p].err, 1, 3) = <<"failed", "to", "pull">>
                        /\ SubSeq(ret[p].err, Len(ret[p].err) - Len(e) + 1, Len(ret[p].err)) = e
                /\ ~Called(p, "drain")
                /\ ~Called(p, "create")
                /\ ~Called(p, "start")
                /\ stream[p].state = "none"
                /\ \A i \in DOMAIN containers : containers[i].by # p

C9_Witness ==
    \E p \in Procs :
        /\ pullOut[p].pullErr = <<"error", "404">>
        /\ ret[p].line = 62
        /\ Contains(result[p].text, <<"not", "found", "in", "registry">>)

\* C10: when ContainerCreate succeeded and ContainerStart failed the result
\* is the "Error:" text wrapping the start error, and the created container's
\* id is not in it.
C10_StartFailureIsFailure ==
    \A p \in Procs :
        (Has(p, "create", TRUE) /\ Has(p, "start", FALSE)) =>
            /\ pc[p] = "done"
            /\ respID[p] # ""
            /\ \E i \in DOMAIN containers : containers[i].id = respID[p]
            /\ result[p].err = "nil"
            /\ \E e \in EngineErrs :
                result[p].text = <<"Error:", "failed", "to", "start", "container:">> \o e
            /\ result[p].text[1] # "container_id:"
            /\ \A i \in DOMAIN result[p].text : result[p].text[i] # respID[p]

C10_Witness ==
    \E p \in Procs :
        /\ Has(p, "create", TRUE)
        /\ Has(p, "start", FALSE)
        /\ result[p].text[1] = "Error:"
        /\ \E i \in DOMAIN containers : containers[i].id = respID[p] /\ containers[i].state = "created"

\* C11: every return of InitializeEnvironment carries a text result and a nil
\* error; the text is either the success payload with the container id or an
\* "Error:" message, never both, and the success payload is returned only
\* when inspect-or-pull, create and start all succeeded.
IsSuccess(r) == Len(r.text) = 2 /\ r.text[1] = "container_id:" /\ r.text[2] # ""

IsFailure(r) == Len(r.text) >= 2 /\ r.text[1] = "Error:"

C11_AlwaysTextResultNilError ==
    \A p \in Procs :
        /\ pc[p] # "done" => result[p].err = "none"
        /\ pc[p] = "done" =>
            /\ result[p].err = "nil"
            /\ IsSuccess(result[p]) # IsFailure(result[p])
            /\ IsFailure(result[p]) =>
                /\ ret[p].line \in {38, 57, 62, 64, 74, 76, 82, 85, 117, 122}
                /\ \A i \in DOMAIN result[p].text : result[p].text[i] # "container_id:"
            /\ IsSuccess(result[p]) =>
                /\ ret[p].line = 0
                /\ Has(p, "inspect", TRUE) \/ PulledClean(p)
                /\ Has(p, "create", TRUE)
                /\ Has(p, "start", TRUE)
                /\ result[p].text[2] = respID[p]
                /\ \E i \in DOMAIN containers :
                    containers[i].id = respID[p] /\ containers[i].state = "running"
            /\ (Has(p, "create", FALSE) \/ Has(p, "start", FALSE) \/ PullFailed(p)
                \/ ~Called(p, "inspect")) => IsFailure(result[p])

C11_Witness ==
    \E p \in Procs :
        /\ pc[p] = "done"
        /\ IsFailure(result[p])
        /\ ret[p].line = 74
        /\ result[p].err = "nil"

\* C12: when every candidate has failed the attempt ends with the connection
\* error, whose text lists every socket path that was tried, and no inspect,
\* pull, create or start is invoked.
EngineOps == {"inspect", "pull.call", "pull", "drain", "create", "start"}

C12_ConnectionErrorListsPaths ==
    \A p \in Procs :
        /\ ret[p].line = 38 =>
            /\ pc[p] = "done"
            /\ ~Has(p, "ping", TRUE)
            /\ Called(p, "connect")
            /\ \A i \in Entries(p) :
                /\ trace[p][i].op \notin EngineOps
                /\ (trace[p][i].op \in {"stat", "connect", "ping"} /\ trace[p][i].cand # "FromEnv")
                    => \E k \in DOMAIN result[p].text : result[p].text[k] = trace[p][i].cand
            /\ \E k \in DOMAIN result[p].text : result[p].text[k] = "/var/run/docker.sock"
            /\ Has(p, "user", TRUE) =>
                \A c \in {"~/.rd/docker.sock", "~/.docker/run/docker.sock",
                          "~/.colima/default/docker.sock"} :
                    /\ Called(p, "stat") /\ \E i \in Entries(p) : trace[p][i].cand = c
                    /\ \E k \in DOMAIN result[p].text : result[p].text[k] = c
            /\ result[p].text[1] = "Error:"
            /\ Contains(result[p].text, <<"could", "not", "connect", "to", "Docker", "daemon.">>)
            /\ Contains(result[p].text, <<"standard", "connection">>)
            /\ containers = <<>> \/ \A i \in DOMAIN containers : containers[i].by # p
        /\ (pc[p] = "done" /\ ~Has(p, "ping", TRUE)) => ret[p].line = 38

C12_Witness ==
    \E p \in Procs :
        /\ ret[p].line = 38
        /\ Has(p, "user", TRUE)
        /\ Has(p, "ping", FALSE)
        /\ Has(p, "stat", FALSE)
        /\ Len(result[p].text) >= 22

\* C13: one attempt runs INIT -> CONNECTING -> CHECKING_IMAGE -> (PRESENT |
\* PULLING -> PULLED) -> CREATING -> STARTING -> RUNNING without retries:
\* inspect, pull, create and start are each invoked at most once, in that
\* order, and the first failure ends the attempt with an error result.
Rank(op) ==
    CASE op = "inspect" -> 1
      [] op = "pull.call" -> 2
      [] op = "pull" -> 3
      [] op = "drain" -> 4
      [] op = "create" -> 5
      [] op = "start" -> 6
      [] OTHER -> 0

Dirty(t) ==
    \/ Contains(t, <<"not", "found">>) \/ Contains(t, <<"404">>)
    \/ Contains(t, <<"manifest", "unknown">>)
    \/ Contains(t, <<"error">>) \/ Contains(t, <<"Error">>)

C13_NoRetriesFailureTerminal ==
    \A p \in Procs :
        LET t == trace[p]
            n == Len(t)
            failed(i) == \/ t[i].op \in {"pull", "create", "start"} /\ ~t[i].ok
                         \/ t[i].op = "drain" /\ (~t[i].ok \/ Dirty(pullOut[p].pullStr))
        IN  /\ \A i \in 1..(n - 1) :
                (Rank(t[i].op) > 0 \/ Rank(t[i + 1].op) > 0)
                    => Rank(t[i].op) < Rank(t[i + 1].op)
            /\ \A i \in 1..(n - 1) :
                /\ (t[i].op = "inspect" /\ t[i].ok) => t[i + 1].op = "create"
                /\ (t[i].op = "inspect" /\ ~t[i].ok) => t[i + 1].op = "pull.call"
                /\ t[i].op = "pull.call" => t[i + 1].op = "pull"
                /\ t[i].op = "pull" => t[i + 1].op = "drain"
                /\ t[i].op = "drain" => t[i + 1].op = "create"
                /\ t[i].op = "create" => t[i + 1].op = "start"
                /\ (t[i].op = "ping" /\ t[i].ok) => t[i + 1].op = "inspect"
            /\ \A i \in 1..n :
                failed(i) => /\ i = n
                             /\ pc[p] = "done"
                             /\ IsFailure(result[p])
                             /\ ret[p].line \in {57, 62, 64, 74, 76, 82, 85, 117, 122}
            /\ pc[p] = "done" =>
                \/ ret[p].line = 38
                \/ n > 0 /\ failed(n)
                \/ n > 0 /\ t[n].op = "start" /\ t[n].ok /\ IsSuccess(result[p])
            /\ pc[p] = "inspect" => (n > 0 /\ t[n].op = "ping" /\ t[n].ok)
            /\ pc[p] = "pull" => t[n].op = "inspect"
            /\ pc[p] = "pulling" => t[n].op = "pull.call"
            /\ pc[p] = "draining" => t[n].op = "pull"
            /\ pc[p] = "create" => t[n].op \in {"inspect", "drain"}
            /\ pc[p] = "start" => t[n].op = "create"

C13_Witness ==
    \E p \in Procs :
        /\ pc[p] = "done"
        /\ Has(p, "inspect", FALSE)
        /\ Has(p, "drain", TRUE)
        /\ Has(p, "create", FALSE)
        /\ Count(p, "inspect") = 1
        /\ Count(p, "pull.call") = 1
        /\ trace[p][Len(trace[p])].op = "create"

\* C16: once ImagePull has returned a stream, the stream is closed exactly
\* once by the time the attempt returns, on every exit path; when ImagePull
\* failed (or was never called) no stream is closed.
C16_StreamClosedExactlyOnce ==
    \A p \in Procs :
        /\ stream[p].closes <= 1
        /\ Has(p, "pull", TRUE) =>
            IF pc[p] = "done"
            THEN stream[p] = [state |-> "closed", closes |-> 1]
            ELSE stream[p] = [state |-> "open", closes |-> 0]
        /\ ~Has(p, "pull", TRUE) => stream[p] = [state |-> "none", closes |-> 0]

C16_Witness ==
    \E p \in Procs :
        /\ pc[p] = "done"
        /\ Has(p, "pull", TRUE)
        /\ Has(p, "start", FALSE)
        /\ stream[p] = [state |-> "closed", closes |-> 1]

\* C17: after a successful ImagePull and a clean drain, a text containing
\* "not found", "404", "manifest unknown", "error" or "Error" ends the attempt
\* in a pull failure with no container created; a text with none of them
\* makes the pull successful and ContainerCreate is invoked.
C17_PayloadFailureSignals ==
    \A p \in Procs :
        pullOut[p].pullStr # Nil =>
            /\ Has(p, "pull", TRUE)
            /\ Has(p, "drain", TRUE)
            /\ IF Dirty(pullOut[p].pullStr)
               THEN /\ pc[p] = "done"
                    /\ ret[p].line \in {82, 85}
                    /\ IsFailure(result[p])
                    /\ \/ Contains(result[p].text, <<"not", "found", "in", "registry">>)
                       \/ Contains(result[p].text, <<"failed", "to", "pull", "Docker", "image">>)
                    /\ ~Called(p, "create")
                    /\ \A i \in DOMAIN containers : containers[i].by # p
               ELSE /\ pc[p] \in {"create", "start", "done"}
                    /\ pc[p] # "create" => Called(p, "create")
                    /\ ret[p].line \notin {82, 85}

C17_Witness ==
    \E p \in Procs :
        /\ pullOut[p].pullStr = <<"error", "unauthorized">>
        /\ ret[p].line = 85
        /\ ~Called(p, "create")

\* C18: cancellation goes inward only: when the caller's context is cancelled
\* or reaches its deadline while the pull is in progress the pull context is
\* cancelled with the same error, whereas the expiry of the pull budget (and
\* the deferred cancel) leaves the caller's context untouched.
C18_CancellationInwardOnly ==
    /\ [](\A p \in Procs : (pullCtx[p].exists /\ ~Live(ctx[p])) => ~Live(pullCtx[p]))
    /\ [][\A p \in Procs :
            /\ (pc[p] \in {"pulling", "draining"} /\ Live(ctx[p]) /\ ~Live(ctx'[p])
                /\ Live(pullCtx[p]))
                    => pullCtx'[p].err = ctx'[p].err
            /\ (Live(pullCtx[p]) /\ pullCtx'[p].err = "DeadlineExceeded"
                /\ (~ctx[p].hasDl \/ clock < ctx[p].dl))
                    => (ctx'[p] = ctx[p] /\ Live(ctx'[p]))
            /\ (pc[p] # "done" /\ pc'[p] = "done") => ctx'[p] = ctx[p]
            /\ ctx'[p] # ctx[p] =>
                /\ Live(ctx[p])
                /\ ctx'[p] \in {[ctx[p] EXCEPT !.err = "Canceled"],
                                [ctx[p] EXCEPT !.err = "DeadlineExceeded"]}
                /\ ctx'[p].err = "DeadlineExceeded" => (ctx[p].hasDl /\ clock >= ctx[p].dl)]_vars

C18_Witness ==
    \E p \in Procs :
        /\ pc[p] = "draining"
        /\ ctx[p].err = "Canceled"
        /\ pullCtx[p].err = "Canceled"
        /\ pullCtx[p].ownTimer

\* C19: when ContainerCreate succeeded and ContainerStart failed, the attempt
\* ends with the start error and the container it created still exists in
\* the engine, never started: no removal, no second start and no other
\* engine call follows the failed start.
C19_OrphanContainerRemains ==
    \A p \in Procs :
        (Has(p, "create", TRUE) /\ Has(p, "start", FALSE)) =>
            /\ pc[p] = "done"
            /\ ret[p].line = 122
            /\ Count(p, "create") = 1
            /\ Count(p, "start") = 1
            /\ trace[p][Len(trace[p])] = [op |-> "start", cand |-> respID[p], ok |-> FALSE]
            /\ Cardinality({i \in DOMAIN containers : containers[i].id = respID[p]}) = 1
            /\ \A i \in DOMAIN containers :
                containers[i].id = respID[p] =>
                    /\ containers[i].state = "created"
                    /\ containers[i].by = p
                    /\ containers[i].image = image[p]

C19_Witness ==
    \E p \in Procs :
        /\ ret[p].line = 122
        /\ Len(containers) = 1
        /\ containers[1].state = "created"
        /\ containers[1].id = respID[p]

\* C20: the timeout error is returned only when the pull context's error is
\* deadline-exceeded at the failure of the ImagePull call or of the drain; a
\* pull that fails with the context cancelled (or live) is classified by its
\* text: image-not-found or generic pull failure for the call, generic read
\* failure for the drain.
C20_TimeoutOnlyOnDeadlineExceeded ==
    \A p \in Procs :
        pc[p] = "done" =>
            /\ ret[p].line \in {57, 74} =>
                (PullFailed(p) /\ pullCtx[p].err = "DeadlineExceeded")
            /\ (PullFailed(p) /\ pullCtx[p].err # "DeadlineExceeded") =>
                /\ ret[p].err[1] # "timeout"
                /\ pullCtx[p].err = "Canceled"
                /\ pullOut[p].pullErr # Nil =>
                    IF \/ Contains(pullOut[p].pullErr, <<"not", "found">>)
                       \/ Contains(pullOut[p].pullErr, <<"404">>)
                       \/ Contains(pullOut[p].pullErr, <<"manifest", "unknown">>)
                    THEN ret[p].line = 62
                    ELSE ret[p].line = 64
                /\ pullOut[p].readErr # Nil => ret[p].line = 76

C20_Witness ==
    \E p \in Procs :
        /\ pc[p] = "done"
        /\ hung[p]
        /\ ctx[p] = [hasDl |-> FALSE, dl |-> 0, err |-> "Canceled"]
        /\ pullOut[p].readErr = <<"context", "deadline", "exceeded">>
        /\ ret[p].line = 76

\* C14: every invocation of InitializeEnvironment eventually returns to its
\* caller: an attempt never stays forever connecting, checking the image,
\* pulling, creating or starting.
C14_EveryInvocationReturns ==
    \A p \in Procs : (pc[p] = "init") ~> (pc[p] = "done")

\* the attempt is blocked in cli.Ping(context.Background()) and nothing, not
\* even the caller's cancellation, can make it return
C14_Witness ==
    \E p \in Procs :
        /\ pc[p] = "pingEnv"
        /\ hung[p]
        /\ cli[p] # 0
        /\ handles[cli[p]].open
        /\ ~ENABLED Next

\* the part of C14 the code does guarantee: a pull or a drain in flight always
\* ends, by itself or by the timer of pullCtx
HungPullEndedByBudget ==
    \A p \in Procs :
        (pc[p] \in {"pulling", "draining"}) ~> (pc[p] \in {"create", "done"})

\* everything one attempt holds: its locals, its context, its results
Local(p) ==
    <<pc[p], image[p], ctx[p], socketPaths[p], idx[p], cli[p], pullCtx[p], hung[p],
      stream[p], pullOut[p], respID[p], defers[p], ret[p], result[p], trace[p]>>

\* C15: with several attempts running concurrently, under every interleaving
\* the handle an attempt uses is one it opened itself, a step of one attempt
\* opens or closes only handles of that attempt and leaves the handle, the
\* stream and every other local of the other attempts untouched, and nothing
\* but an attempt's step changes a handle.
C15_AttemptsShareNothing ==
    /\ [](\A p \in Procs :
            cli[p] # 0 => (cli[p] \in DOMAIN handles /\ handles[cli[p]].owner = p))
    /\ [][/\ \A p \in Procs :
               Local(p)' # Local(p) =>
                   /\ \A q \in Procs \ {p} : Local(q)' = Local(q)
                   /\ \A h \in DOMAIN handles' :
                       (h \notin DOMAIN handles \/ handles'[h] # handles[h]) =>
                           (handles'[h].owner = p /\ cli'[p] = h)
          /\ (\A p \in Procs : Local(p)' = Local(p)) => handles' = handles
          /\ \A h \in DOMAIN handles :
               h \in DOMAIN handles' /\ handles'[h].owner = handles[h].owner]_vars

\* two attempts interleave: q opened its handle first and is still draining its
\* own open stream while p, which connected later, has returned and has
\* closed its own handle and its own stream once
C15_Witness ==
    \E p, q \in Procs :
        /\ p # q
        /\ pc[p] = "done" /\ pc[q] = "draining"
        /\ cli[q] # 0 /\ cli[q] < cli[p]
        /\ handles[cli[p]] = [owner |-> p, cand |-> handles[cli[p]].cand,
                              open |-> FALSE, closes |-> 1]
        /\ handles[cli[q]].owner = q /\ handles[cli[q]].open
        /\ stream[p] = [state |-> "closed", closes |-> 1]
        /\ stream[q] = [state |-> "open", closes |-> 0]

====
